---- MODULE Spec2Model ----
(***************************************************************************)
(* Model of the earthquake early-warning application (src/main.py):        *)
(* the Worker that runs one analysis off the GUI thread, the Qt signals    *)
(* it emits, the main thread's event loop that delivers them to            *)
(* EarlyWarningApp, and the window lifecycle.                              *)
(*                                                                         *)
(* Threads.  The main (GUI) thread executes start_analysis, handle_results,*)
(* handle_error, cleanup and QThread.quit, one queued event at a time.     *)
(* Every run has its own worker thread executing Worker.run.  A signal     *)
(* emitted by a worker is connected to a receiver living in the main       *)
(* thread, so Qt queues it: it is appended to mainQueue and handled later. *)
(***************************************************************************)
EXTENDS Integers, Sequences, FiniteSets, TLC

\* ------------------------------------------------------------------ bounds
MaxRuns == 2        \* analysis runs started in one behaviour
NumRegions == 2     \* rows of the provinces GeoDataFrame
MaxEvents == 1      \* events in one catalog response
MaxFeatures == 2    \* features in one raw catalog response

Runs == 1..MaxRuns
Regions == 1..NumRegions

\* ------------------------------------------------------------ data values
\* A region without a value in the 'risk' column (the boundary file has none).
Unset == -1
\* predict_proba's probabilities are modelled in tenths: p = k / ProbaDen.
ProbaDen == 10
\* Reference of the application's shared GeoDataFrame, self.provinces.
provinces == 0

training_features == <<"mag", "depth", "nst", "gap", "dmin", "rms">>

\* The events the catalog can return (already parsed).
EventPool ==
    { [mag |-> 2, depth |-> 10, nst |-> 4, gap |-> 90, dmin |-> 1, rms |-> 1],
      [mag |-> 6, depth |-> 7, nst |-> 9, gap |-> 40, dmin |-> 2, rms |-> 3] }

EventLists == UNION { [1..n -> EventPool] : n \in 0..MaxEvents }

\* What one call of fetch_events can do: raise (requests exception or
\* raise_for_status) or return the parsed events.
FetchOutcomes ==
    { [ok |-> FALSE, events |-> <<>>, exc |-> "FetchError"] } \cup
    { [ok |-> TRUE, events |-> evs, exc |-> ""] : evs \in EventLists }

\* What the classifier call can do.
ClassifierModes == {"ok", "raise"}

RECURSIVE SumField(_, _)
SumField(events, f) ==
    IF events = <<>> THEN 0 ELSE Head(events)[f] + SumField(Tail(events), f)

RECURSIVE GCD(_, _)
GCD(a, b) == IF b = 0 THEN a ELSE GCD(b, a % b)

\* A "mean" that is the first event's value.
MeanOfFirst(events, f) == [num |-> events[1][f], den |-> 1]

\* statistics.mean: the exact mean, as a fraction in lowest terms.
Mean(events, f) ==
    LET s == SumField(events, f)
        n == Len(events)
        g == GCD(s, n)
    IN  [num |-> s \div g, den |-> n \div g]

FeatureVector(events) ==
    [i \in 1..Len(training_features) |-> Mean(events, training_features[i])]

\* The pretrained classifier, a deterministic function of the feature row;
\* here: the mean magnitude in tenths, capped at probability 1.
PredictProba(fv) ==
    LET k == fv[1].num \div fv[1].den
    IN  IF k > ProbaDen THEN ProbaDen ELSE k

\* A score that is the probability in thousandths.
predict_risk_permille(events, clf) ==
    IF events = <<>> THEN [ok |-> TRUE, value |-> 0, exc |-> ""]
    ELSE IF clf = "raise" THEN [ok |-> FALSE, value |-> 0, exc |-> "ScoringError"]
    ELSE [ok |-> TRUE,
          value |-> (PredictProba(FeatureVector(events)) * 1000) \div ProbaDen,
          exc |-> ""]

\* Worker.predict_risk: 0.0 for no events, else the positive-class
\* probability times 100; an exception of the classifier propagates.
predict_risk(events, clf) ==
    IF events = <<>> THEN [ok |-> TRUE, value |-> 0, exc |-> ""]
    ELSE IF clf = "raise" THEN [ok |-> FALSE, value |-> 0, exc |-> "ScoringError"]
    ELSE [ok |-> TRUE,
          value |-> (PredictProba(FeatureVector(events)) * 100) \div ProbaDen,
          exc |-> ""]

\* A test that lets an empty nationwide list through.
NotEventsNever(events) == FALSE

\* Line 66: `if not events`.
NotEvents(events) == events = <<>>

\* The bounding box of a catalog request: TURKEY_BBOX (lines 24-29), or the
\* bounds of a region's geometry.
TURKEY_BBOX == 0

\* A sweep that asks for the whole country again for every region.
RegionBBoxNationwide(g) == TURKEY_BBOX

\* Lines 77-83: the bbox built from row g's geometry.bounds.
RegionBBox(g) == g

\* A sweep that leaves a region without data without a value.
RegionRiskUnset(evs, clf) ==
    IF evs # <<>> THEN predict_risk(evs, clf)
    ELSE [ok |-> TRUE, value |-> Unset, exc |-> ""]

\* Line 85: self.predict_risk(evs) if evs else 0.0
RegionRisk(evs, clf) ==
    IF evs # <<>> THEN predict_risk(evs, clf)
    ELSE [ok |-> TRUE, value |-> 0, exc |-> ""]

\* ---------------------------------------------------------------- signals
NoDataText == <<"Belirtilen aralikta deprem verisi bulunamadi.">>

\* An error text that drops the exception's own message.
ErrorTextGeneric(exc) == <<"Hesaplama hatasi: ">>

\* Line 90: f"Hesaplama hatasi: {str(e)}"
ErrorText(exc) == <<"Hesaplama hatasi: ", exc>>

Msg(kind, r, text, proba, events, provs) ==
    [kind |-> kind, run |-> r, text |-> text, proba |-> proba,
     events |-> events, provs |-> provs]

ErrorMsg(r, text) == Msg("error", r, text, Unset, <<>>, provinces)
FinishedMsg(r) == Msg("finished", r, <<>>, Unset, <<>>, provinces)
ThreadFinishedMsg(r) == Msg("thread_finished", r, <<>>, Unset, <<>>, provinces)
ResultMsg(r, proba, events, provs) == Msg("result", r, <<>>, proba, events, provs)

\* A zero-events branch that returns without telling anyone.
EmptySignalsNoError(r) == << FinishedMsg(r) >>

\* Lines 66-69: zero nationwide events.
EmptySignals(r) == << ErrorMsg(r, NoDataText), FinishedMsg(r) >>
\* Lines 89-90: except Exception as e.
ExceptSignals(r, exc) == << ErrorMsg(r, ErrorText(exc)) >>
\* Line 88.
ResultSignals(r, proba, events, provs) == << ResultMsg(r, proba, events, provs) >>
\* Lines 91-92: finally.
FinallySignals(r) == << FinishedMsg(r) >>

\* provs = self.provinces, without the copy: the same object.
ProvincesAlias(ref, r) == ref

\* Line 74: provs = self.provinces.copy() is a new object, named after the run.
ProvincesCopy(ref, r) == r

\* A column written before the sweep is over: only the first row has a value.
RiskColumnPartial(risks) == [g \in Regions |-> IF g = 1 THEN risks[g] ELSE Unset]

\* Line 86: provs['risk'] = risks, the whole column in one assignment.
RiskColumn(risks) == [g \in Regions |-> risks[g]]

NoRisk == [g \in Regions |-> Unset]

RECURSIVE CountKind(_, _)
CountKind(sigs, kind) ==
    IF sigs = <<>> THEN 0
    ELSE (IF Head(sigs).kind = kind THEN 1 ELSE 0) + CountKind(Tail(sigs), kind)

\* ------------------------------------------------------- catalog response
\* A JSON member of a record: absent, present with null, or a number.
Missing == [tag |-> "missing", v |-> 0]
Null == [tag |-> "null", v |-> 0]
Num(n) == [tag |-> "num", v |-> n]

\* A 'coordinates' member: absent, null, or a list [lon, lat, depth][:len].
NoCoordinates == [tag |-> "missing", len |-> 0, depth |-> Missing]
NullCoordinates == [tag |-> "null", len |-> 0, depth |-> Missing]
Coordinates(len, depth) ==
    [tag |-> "list", len |-> len, depth |-> IF len >= 3 THEN depth ELSE Missing]

\* A feature of the GeoJSON response with every member present and numeric.
WellFormed ==
    [properties |-> "obj", mag |-> Num(5), time |-> Num(86400123),
     nst |-> Num(4), gap |-> Num(90), dmin |-> Num(1), rms |-> Num(1),
     geometry |-> "obj", coordinates |-> Coordinates(3, Num(10))]

\* The features a response can carry: well formed ones, and ones that
\* deviate in one member (absent, null, or too short a list).
FeaturePool ==
    { WellFormed,
      [WellFormed EXCEPT !.mag = Num(2), !.nst = Num(9), !.gap = Num(40),
                         !.dmin = Num(2), !.rms = Num(3),
                         !.coordinates = Coordinates(3, Num(7))],
      [WellFormed EXCEPT !.mag = Num(8), !.nst = Missing, !.gap = Missing,
                         !.dmin = Missing, !.rms = Missing,
                         !.coordinates = Coordinates(3, Num(33))],
      [WellFormed EXCEPT !.mag = Missing],
      [WellFormed EXCEPT !.mag = Null],
      [WellFormed EXCEPT !.coordinates = Coordinates(3, Null)],
      [WellFormed EXCEPT !.coordinates = Coordinates(2, Missing)],
      [WellFormed EXCEPT !.coordinates = NoCoordinates],
      [WellFormed EXCEPT !.coordinates = NullCoordinates],
      [WellFormed EXCEPT !.geometry = "missing"],
      [WellFormed EXCEPT !.geometry = "null"],
      [WellFormed EXCEPT !.properties = "missing"],
      [WellFormed EXCEPT !.properties = "null"],
      [WellFormed EXCEPT !.time = Missing],
      [WellFormed EXCEPT !.time = Null],
      [WellFormed EXCEPT !.mag = Null, !.time = Missing],
      [WellFormed EXCEPT !.nst = Null],
      [WellFormed EXCEPT !.gap = Null],
      [WellFormed EXCEPT !.dmin = Null],
      [WellFormed EXCEPT !.rms = Null] }

\* response.json(): an object with or without a 'features' list.
Catalogs ==
    { [features |-> "missing", list |-> <<>>] } \cup
    { [features |-> "list", list |-> l] :
        l \in UNION { [1..n -> FeaturePool] : n \in 0..MaxFeatures } }

\* dict.get(key): None for an absent key, else the member's value.
Get(member) == IF member.tag = "missing" THEN Null ELSE member

\* dict.get(key, default): the default only for an absent key.
GetOr(member, default) == IF member.tag = "missing" THEN Num(default) ELSE member

\* datetime.utcfromtimestamp(ms / 1000): seconds and microseconds.
utcfromtimestamp(ms) == [sec |-> ms \div 1000, usec |-> (ms % 1000) * 1000]

NoEvent ==
    [time |-> utcfromtimestamp(0), mag |-> Null, depth |-> Null, nst |-> Null,
     gap |-> Null, dmin |-> Null, rms |-> Null]

Raised(exc) == [kind |-> "raise", event |-> NoEvent, exc |-> exc]
Skipped == [kind |-> "skip", event |-> NoEvent, exc |-> ""]
Emitted(e) == [kind |-> "event", event |-> e, exc |-> ""]

\* Lines 109-120: one iteration of the loop of parse_earthquake_data.
ParseFeature(feature) ==
    IF feature.geometry = "null" THEN Raised("AttributeError")
    ELSE IF feature.properties = "null" THEN Raised("AttributeError")
    ELSE
        LET props == IF feature.properties = "obj" THEN feature
                     ELSE [feature EXCEPT !.mag = Missing, !.time = Missing,
                             !.nst = Missing, !.gap = Missing,
                             !.dmin = Missing, !.rms = Missing]
            coords == IF feature.geometry = "obj"
                         /\ feature.coordinates.tag # "missing"
                      THEN feature.coordinates
                      ELSE Coordinates(0, Missing)
        IN  IF Get(props.mag).tag = "null" THEN Skipped
            ELSE IF coords.tag = "null" THEN Raised("TypeError")
            ELSE IF ~(coords.len >= 3) THEN Skipped
            ELSE IF props.time.tag = "missing" THEN Raised("KeyError")
            ELSE IF props.time.tag = "null" THEN Raised("TypeError")
            ELSE Emitted([time |-> utcfromtimestamp(props.time.v),
                          mag |-> props.mag,
                          depth |-> coords.depth,
                          nst |-> GetOr(props.nst, 0),
                          gap |-> GetOr(props.gap, 0),
                          dmin |-> GetOr(props.dmin, 0),
                          rms |-> GetOr(props.rms, 0)])

\* The loop over the features: the first exception ends the call.
RECURSIVE ParseList(_, _)
ParseList(list, events) ==
    IF list = <<>> THEN [ok |-> TRUE, events |-> events, exc |-> ""]
    ELSE LET one == ParseFeature(Head(list)) IN
         IF one.kind = "raise" THEN [ok |-> FALSE, events |-> <<>>, exc |-> one.exc]
         ELSE IF one.kind = "skip" THEN ParseList(Tail(list), events)
         ELSE ParseList(Tail(list), Append(events, one.event))

\* Worker.parse_earthquake_data, lines 106-121.
parse_earthquake_data(data) ==
    ParseList(IF data.features = "missing" THEN <<>> ELSE data.list, <<>>)

\* A parsed event all of whose training features are numbers.
Numeric(e) == \A i \in 1..Len(training_features) : e[training_features[i]].tag = "num"

\* The event as the numbers it holds.
Values(e) == [f \in {"mag", "depth", "nst", "gap", "dmin", "rms"} |-> e[f].v]

\* predict_risk on parsed events: statistics.mean raises TypeError on a list
\* that holds None.
predict_risk_parsed(events, clf) ==
    IF events = <<>> THEN predict_risk(<<>>, clf)
    ELSE IF \E i \in 1..Len(events) : ~Numeric(events[i])
    THEN [ok |-> FALSE, value |-> 0, exc |-> "TypeError"]
    ELSE predict_risk([i \in 1..Len(events) |-> Values(events[i])], clf)

\* Line 133: the one-row frame given to the classifier (none when
\* predict_risk returns or raises before it).
FeatureRow(events) ==
    IF events = <<>> \/ \E i \in 1..Len(events) : ~Numeric(events[i])
    THEN <<>>
    ELSE FeatureVector([i \in 1..Len(events) |-> Values(events[i])])

NoParse == [ok |-> TRUE, events |-> <<>>, exc |-> ""]
NoScore == [ok |-> TRUE, value |-> Unset, exc |-> ""]

\* ------------------------------------------------------------------ state
VARIABLES
    analyze_btn,   \* the start button is enabled
    progress,      \* self.progress: the run whose dialog it refers to (0: none)
    openProgress,  \* runs whose progress dialog is open
    worker,        \* self.worker / self.worker_thread: the run they belong to
    w,             \* per run: Worker.run's position and locals
    thread,        \* per run: state of its QThread
    heap,          \* GeoDataFrame objects by reference
    mainQueue,     \* events posted to the main thread, in order
    emitted,       \* per run: how often each signal was emitted
    nHandled,      \* per run: how often an outcome handler was invoked
    msgBoxes,      \* QMessageBox.warning dialogs open inside handle_error
    closed,        \* the main window was closed
    map_window,    \* a MapWindow is open
    shown,         \* what the window displays (label, plot, map)
    deleted,       \* runs whose worker and thread got deleteLater()
    nextRun,
    loaded,        \* __init__ loaded the model and the boundary file
    exited,        \* sys.exit was called in __init__
    exitStatus,    \* its status
    timer,         \* the refresh QTimer is running
    raw,           \* parser check: the catalog response (its features)
    parsed,        \* parser check: what parse_earthquake_data did with it
    fv,            \* parser check: the feature row given to the classifier
    scored,        \* parser check: what predict_risk did with the events
    purePc         \* parser check: position

vars == << analyze_btn, progress, openProgress, worker, w, thread, heap,
           mainQueue, emitted, nHandled, msgBoxes, closed, map_window, shown,
           deleted, nextRun, loaded, exited, exitStatus, timer,
           raw, parsed, fv, scored, purePc >>

\* The pipeline leaves the startup outcome and the parser check alone.
Static ==
    UNCHANGED << loaded, exited, exitStatus, timer, raw, parsed, fv, scored,
                 purePc >>

\* Worker.run's locals: events, proba, provs, risks, evs and the caught e;
\* requests lists the bounding boxes of the catalog requests it has issued.
NoLocals == [pc |-> "unborn", events |-> <<>>, proba |-> Unset,
             risks |-> <<>>, provs |-> provinces, evs |-> <<>>, exc |-> "",
             requests |-> <<>>]

\* A heap slot holding no object.
Freed == [alive |-> FALSE, risk |-> NoRisk]

NoShown == [run |-> 0, proba |-> Unset, events |-> <<>>, risk |-> NoRisk]

\* sys.exit(1), line 181.
ExitFailure == 1

\* A constructor that carries on after a failed load.
ConstructCarriesOn(loadOk) ==
    [exited |-> FALSE, status |-> 0, window |-> TRUE, timer |-> TRUE]

\* EarlyWarningApp.__init__, lines 175-189: a failed load exits before
\* init_ui and before the timer is created; otherwise the window is built
\* and the timer started.
Construct(loadOk) ==
    IF loadOk
    THEN [exited |-> FALSE, status |-> 0, window |-> TRUE, timer |-> TRUE]
    ELSE [exited |-> TRUE, status |-> ExitFailure, window |-> FALSE,
          timer |-> FALSE]

\* The state after construction, given whether the two files loaded.
Constructed(loadOk) ==
    /\ loaded = loadOk
    /\ exited = Construct(loadOk).exited
    /\ exitStatus = Construct(loadOk).status
    /\ timer = Construct(loadOk).timer
    /\ analyze_btn = Construct(loadOk).window
    /\ progress = 0
    /\ openProgress = {}
    /\ worker = 0
    /\ w = [r \in Runs |-> NoLocals]
    /\ thread = [r \in Runs |-> "none"]
    /\ heap = [x \in 0..MaxRuns |->
                 IF x = provinces THEN [alive |-> TRUE, risk |-> NoRisk]
                 ELSE Freed]
    /\ mainQueue = <<>>
    /\ emitted = [r \in Runs |-> [result |-> 0, error |-> 0, finished |-> 0]]
    /\ nHandled = [r \in Runs |-> 0]
    /\ msgBoxes = 0
    /\ closed = FALSE
    /\ map_window = FALSE
    /\ shown = NoShown
    /\ deleted = {}
    /\ nextRun = 1

Init ==
    /\ \E loadOk \in BOOLEAN : Constructed(loadOk)
    /\ raw = [features |-> "missing", list |-> <<>>]
    /\ parsed = NoParse
    /\ fv = <<>>
    /\ scored = NoScore
    /\ purePc = "idle"

\* The process is alive: it did not exit in __init__, and app.exec() has not
\* returned (it returns when the last window is closed).
AppRunning == ~exited /\ (~closed \/ map_window)

\* ------------------------------------------------------------ main thread
\* EarlyWarningApp.start_analysis, lines 258-285.
start_analysis ==
    /\ AppRunning
    /\ nextRun <= MaxRuns
    /\ analyze_btn' = FALSE
    /\ progress' = nextRun
    /\ openProgress' = openProgress \cup {nextRun}
    /\ worker' = nextRun
    /\ w' = [w EXCEPT ![nextRun] = [NoLocals EXCEPT !.pc = "fetch_nat"]]
    /\ thread' = [thread EXCEPT ![nextRun] = "running"]
    /\ nextRun' = nextRun + 1
    /\ UNCHANGED << heap, mainQueue, emitted, nHandled, msgBoxes, closed,
                    map_window, shown, deleted >>
    /\ Static

\* analyze_btn.clicked, line 226: only an enabled button of an open window.
Click ==
    /\ analyze_btn
    /\ ~closed
    /\ start_analysis

\* timer.timeout, lines 187-189: fires every 10 minutes while the app runs.
TimerTimeout ==
    /\ timer
    /\ AppRunning
    /\ start_analysis

\* A handler that reads the current worker's fields instead of its arguments.
ShownFromWorker(m) ==
    [run |-> worker, proba |-> w[worker].proba, events |-> w[worker].events,
     risk |-> heap[w[worker].provs].risk]

\* What handle_results displays: its three arguments.
ShownOf(m) ==
    [run |-> m.run, proba |-> m.proba, events |-> m.events,
     risk |-> heap[m.provs].risk]

\* EarlyWarningApp.handle_results, lines 287-302.
handle_results ==
    /\ AppRunning
    /\ mainQueue # <<>>
    /\ Head(mainQueue).kind = "result"
    /\ LET m == Head(mainQueue) IN
        /\ openProgress' = openProgress \ {progress}
        /\ shown' = ShownOf(m)
        /\ map_window' = TRUE
        /\ analyze_btn' = TRUE
        /\ nHandled' = [nHandled EXCEPT ![m.run] = @ + 1]
        \* the copy is freed with the last reference to it
        /\ heap' = IF m.provs = provinces
                      \/ \E r \in Runs : w[r].pc # "done" /\ w[r].provs = m.provs
                   THEN heap
                   ELSE [heap EXCEPT ![m.provs] = Freed]
    /\ mainQueue' = Tail(mainQueue)
    /\ UNCHANGED << progress, worker, w, thread, emitted, msgBoxes, closed,
                    deleted, nextRun >>
    /\ Static

\* EarlyWarningApp.handle_error, lines 304-306: up to the modal message box,
\* which runs a nested event loop until the user dismisses it.
handle_error ==
    /\ AppRunning
    /\ mainQueue # <<>>
    /\ Head(mainQueue).kind = "error"
    /\ openProgress' = openProgress \ {progress}
    /\ msgBoxes' = msgBoxes + 1
    /\ nHandled' = [nHandled EXCEPT ![Head(mainQueue).run] = @ + 1]
    /\ mainQueue' = Tail(mainQueue)
    /\ UNCHANGED << analyze_btn, progress, worker, w, thread, heap, emitted,
                    closed, map_window, shown, deleted, nextRun >>
    /\ Static

\* handle_error, line 307, after QMessageBox.warning has returned.
DismissMessageBox ==
    /\ AppRunning
    /\ msgBoxes > 0
    /\ msgBoxes' = msgBoxes - 1
    /\ analyze_btn' = TRUE
    /\ UNCHANGED << progress, openProgress, worker, w, thread, heap, mainQueue,
                    emitted, nHandled, closed, map_window, shown, deleted,
                    nextRun >>
    /\ Static

\* worker.finished -> worker_thread.quit, line 282: the thread's event loop
\* is told to exit; a thread that is not running ignores it.
ThreadQuit ==
    /\ AppRunning
    /\ mainQueue # <<>>
    /\ Head(mainQueue).kind = "finished"
    /\ LET r == Head(mainQueue).run IN
        thread' = [thread EXCEPT ![r] = IF @ = "running" THEN "quitting" ELSE @]
    /\ mainQueue' = Tail(mainQueue)
    /\ UNCHANGED << analyze_btn, progress, openProgress, worker, w, heap,
                    emitted, nHandled, msgBoxes, closed, map_window, shown,
                    deleted, nextRun >>
    /\ Static

\* worker_thread.finished -> cleanup, lines 283 and 309-311.
cleanup ==
    /\ AppRunning
    /\ mainQueue # <<>>
    /\ Head(mainQueue).kind = "thread_finished"
    /\ deleted' = deleted \cup {worker}
    /\ mainQueue' = Tail(mainQueue)
    /\ UNCHANGED << analyze_btn, progress, openProgress, worker, w, thread,
                    heap, emitted, nHandled, msgBoxes, closed, map_window,
                    shown, nextRun >>
    /\ Static

\* The user closes the main window (no closeEvent override: it just closes).
CloseWindow ==
    /\ AppRunning
    /\ ~closed
    /\ closed' = TRUE
    /\ UNCHANGED << analyze_btn, progress, openProgress, worker, w, thread,
                    heap, mainQueue, emitted, nHandled, msgBoxes, map_window,
                    shown, deleted, nextRun >>
    /\ Static

\* The user closes the map window opened by handle_results.
CloseMap ==
    /\ AppRunning
    /\ map_window
    /\ map_window' = FALSE
    /\ UNCHANGED << analyze_btn, progress, openProgress, worker, w, thread,
                    heap, mainQueue, emitted, nHandled, msgBoxes, closed,
                    shown, deleted, nextRun >>
    /\ Static

\* ---------------------------------------------------------- worker threads
\* Emitting signals from a worker thread: queued to the main thread.
Emit(r, sigs) ==
    /\ mainQueue' = mainQueue \o sigs
    /\ emitted' = [emitted EXCEPT
                     ![r].result = @ + CountKind(sigs, "result"),
                     ![r].error = @ + CountKind(sigs, "error"),
                     ![r].finished = @ + CountKind(sigs, "finished")]

MainUnchanged ==
    /\ UNCHANGED << analyze_btn, progress, openProgress, worker, thread,
                    nHandled, msgBoxes, closed, map_window, shown, deleted,
                    nextRun >>
    /\ Static

\* Worker.run, lines 65-69: the nationwide fetch.
FetchNationwide(r) ==
    /\ AppRunning
    /\ w[r].pc = "fetch_nat"
    /\ \E res \in FetchOutcomes :
        IF ~res.ok THEN
            /\ Emit(r, ExceptSignals(r, res.exc))
            /\ w' = [w EXCEPT ![r].pc = "finally", ![r].exc = res.exc,
                              ![r].requests = Append(@, TURKEY_BBOX)]
        ELSE IF NotEvents(res.events) THEN
            /\ Emit(r, EmptySignals(r))
            /\ w' = [w EXCEPT ![r].pc = "finally",
                              ![r].requests = Append(@, TURKEY_BBOX)]
        ELSE
            /\ w' = [w EXCEPT ![r].pc = "predict", ![r].events = res.events,
                              ![r].requests = Append(@, TURKEY_BBOX)]
            /\ UNCHANGED << mainQueue, emitted >>
    /\ UNCHANGED heap
    /\ MainUnchanged

\* Worker.run, lines 71-75: the nationwide score, then the copy of provinces.
PredictNationwide(r) ==
    /\ AppRunning
    /\ w[r].pc = "predict"
    /\ \E clf \in ClassifierModes :
        LET out == predict_risk(w[r].events, clf)
            ref == ProvincesCopy(provinces, r)
        IN  IF ~out.ok THEN
                /\ Emit(r, ExceptSignals(r, out.exc))
                /\ w' = [w EXCEPT ![r].pc = "finally", ![r].exc = out.exc]
                /\ UNCHANGED heap
            ELSE
                /\ w' = [w EXCEPT ![r].pc = "sweep", ![r].proba = out.value,
                                  ![r].provs = ref]
                /\ heap' = [heap EXCEPT ![ref] =
                              [alive |-> TRUE, risk |-> heap[provinces].risk]]
                /\ UNCHANGED << mainQueue, emitted >>
    /\ MainUnchanged

\* Worker.run, lines 76-85: one iteration of the loop over the rows.
SweepRegion(r) ==
    /\ AppRunning
    /\ w[r].pc = "sweep"
    /\ \E res \in FetchOutcomes, clf \in ClassifierModes :
        IF ~res.ok THEN
            /\ Emit(r, ExceptSignals(r, res.exc))
            /\ w' = [w EXCEPT ![r].pc = "finally", ![r].exc = res.exc,
                              ![r].requests =
                                  Append(@, RegionBBox(Len(w[r].risks) + 1))]
        ELSE
            LET out == RegionRisk(res.events, clf) IN
            IF ~out.ok THEN
                /\ Emit(r, ExceptSignals(r, out.exc))
                /\ w' = [w EXCEPT ![r].pc = "finally", ![r].exc = out.exc,
                                  ![r].evs = res.events,
                                  ![r].requests =
                                      Append(@, RegionBBox(Len(w[r].risks) + 1))]
            ELSE
                /\ w' = [w EXCEPT
                           ![r].evs = res.events,
                           ![r].requests =
                               Append(@, RegionBBox(Len(w[r].risks) + 1)),
                           ![r].risks = Append(@, out.value),
                           ![r].pc = IF Len(w[r].risks) + 1 = NumRegions
                                     THEN "assign" ELSE "sweep"]
                /\ UNCHANGED << mainQueue, emitted >>
    /\ UNCHANGED heap
    /\ MainUnchanged

\* Worker.run, lines 86-88: the risk column, then the result signal.
EmitResult(r) ==
    /\ AppRunning
    /\ w[r].pc = "assign"
    /\ heap' = [heap EXCEPT ![w[r].provs].risk = RiskColumn(w[r].risks)]
    /\ Emit(r, ResultSignals(r, w[r].proba, w[r].events, w[r].provs))
    /\ w' = [w EXCEPT ![r].pc = "finally"]
    /\ MainUnchanged

\* Worker.run, lines 91-92: finally; run() returns and its locals are gone.
Finally(r) ==
    /\ AppRunning
    /\ w[r].pc = "finally"
    /\ Emit(r, FinallySignals(r))
    /\ w' = [w EXCEPT ![r] = [NoLocals EXCEPT !.pc = "done"]]
    /\ heap' = IF w[r].provs = provinces
                  \/ \E i \in DOMAIN mainQueue :
                        /\ mainQueue[i].kind = "result"
                        /\ mainQueue[i].provs = w[r].provs
               THEN heap
               ELSE [heap EXCEPT ![w[r].provs] = Freed]
    /\ MainUnchanged

\* The thread's event loop exits once quit() was called and run() has
\* returned; QThread.finished is then queued for cleanup.
ThreadExit(r) ==
    /\ AppRunning
    /\ thread[r] = "quitting"
    /\ w[r].pc = "done"
    /\ thread' = [thread EXCEPT ![r] = "finished"]
    /\ mainQueue' = Append(mainQueue, ThreadFinishedMsg(r))
    /\ UNCHANGED << analyze_btn, progress, openProgress, worker, w, heap,
                    emitted, nHandled, msgBoxes, closed, map_window, shown,
                    deleted, nextRun >>
    /\ Static

WorkerStep(r) ==
    \/ FetchNationwide(r)
    \/ PredictNationwide(r)
    \/ SweepRegion(r)
    \/ EmitResult(r)
    \/ Finally(r)
    \/ ThreadExit(r)

Next ==
    \/ Click
    \/ TimerTimeout
    \/ handle_results
    \/ handle_error
    \/ DismissMessageBox
    \/ ThreadQuit
    \/ cleanup
    \/ CloseWindow
    \/ CloseMap
    \/ \E r \in Runs : WorkerStep(r)

Spec == Init /\ [][Next]_vars

\* ------------------------------------------- parser and aggregator, alone
\* parse_earthquake_data applied to the response.
Parse ==
    /\ purePc = "parse"
    /\ parsed' = parse_earthquake_data(raw)
    /\ purePc' = IF parse_earthquake_data(raw).ok THEN "score" ELSE "raised"
    /\ UNCHANGED << raw, fv, scored >>
    /\ UNCHANGED << analyze_btn, progress, openProgress, worker, w, thread,
                    heap, mainQueue, emitted, nHandled, msgBoxes, closed,
                    map_window, shown, deleted, nextRun, loaded, exited,
                    exitStatus, timer >>

\* predict_risk applied to the events the parser returned.
Score ==
    /\ purePc = "score"
    /\ \E clf \in ClassifierModes :
         scored' = predict_risk_parsed(parsed.events, clf)
    /\ fv' = FeatureRow(parsed.events)
    /\ purePc' = "scored"
    /\ UNCHANGED << raw, parsed >>
    /\ UNCHANGED << analyze_btn, progress, openProgress, worker, w, thread,
                    heap, mainQueue, emitted, nHandled, msgBoxes, closed,
                    map_window, shown, deleted, nextRun, loaded, exited,
                    exitStatus, timer >>

PureInit ==
    /\ Constructed(TRUE)
    /\ raw \in Catalogs
    /\ parsed = NoParse
    /\ fv = <<>>
    /\ scored = NoScore
    /\ purePc = "parse"

PureNext ==
    \/ Parse
    \/ Score

PureSpec == PureInit /\ [][PureNext]_vars

\* Every worker thread is scheduled, every fetch ends (timeout=15), and the
\* main event loop handles every queued event.
Fairness ==
    /\ \A r \in Runs : WF_vars(WorkerStep(r))
    /\ WF_vars(handle_results)
    /\ WF_vars(handle_error)
    /\ WF_vars(ThreadQuit)
    /\ WF_vars(cleanup)

FairSpec == Spec /\ Fairness

\* ------------------------------------------------------------------ claims
Started(r) == w[r].pc # "unborn"
InFlight(r) == w[r].pc \notin {"unborn", "done"}
Outcomes(r) == emitted[r].result + emitted[r].error

C1_OutcomeCounts ==
    \A r \in Runs :
        /\ Outcomes(r) <= 1
        /\ nHandled[r] <= Outcomes(r)
        /\ (w[r].pc \in {"finally", "done"} => Outcomes(r) = 1)

\* C1: a run never emits both a result and an error, has emitted exactly one
\* of them when Worker.run reaches its finally clause, and every started run
\* has exactly one outcome handler invoked for it, unless the application
\* has quit before.
C1_ExactlyOneOutcome ==
    /\ []C1_OutcomeCounts
    /\ \A r \in Runs : Started(r) ~> (nHandled[r] = 1 \/ ~AppRunning)

\* A successful and a failed run, both delivered.
C1_Witness ==
    \E r1, r2 \in Runs :
        /\ emitted[r1].result = 1 /\ nHandled[r1] = 1
        /\ emitted[r2].error = 1 /\ nHandled[r2] = 1

\* C2: at most one analysis run is in flight at any time.
C2_SingleRunInFlight ==
    \A r1, r2 \in Runs : InFlight(r1) /\ InFlight(r2) => r1 = r2

\* C3: a failing fetch for one region does not fail the run: a worker in the
\* regional sweep never leaves it by reporting the fetch error.
C3_RegionFailureAbsorbed ==
    [][\A r \in Runs :
         w[r].pc = "sweep" /\ w'[r].pc = "finally" => w'[r].exc # "FetchError"]_vars

\* A run that fails in the regional sweep (an error emitted after the copy).
C3_Witness ==
    \E r \in Runs : w[r].pc = "finally" /\ w[r].exc = "FetchError"
                     /\ w[r].provs # provinces

\* The error signal a step from state w to w' has just emitted for run r.
Posted == SubSeq(mainQueue', Len(mainQueue) + 1, Len(mainQueue'))

C4_FailedStep(r) ==
    /\ w[r].pc \in {"fetch_nat", "predict"}
    /\ w'[r].pc \notin {"fetch_nat", "predict", "sweep"}

\* C4: a nationwide fetch that raises or returns no events, and a nationwide
\* score that raises, end the run as failed: the step emits one error whose
\* text is the fixed no-data message for zero events and names the exception
\* otherwise, Worker.run goes on to its finally clause, and a run that emitted
\* an error never emits a result.
C4_NationwideFailureReported ==
    /\ [](\A r \in Runs : emitted[r].error >= 1 =>
             emitted[r].error = 1 /\ emitted[r].result = 0)
    /\ [][\A r \in Runs : C4_FailedStep(r) =>
             /\ w'[r].pc = "finally"
             /\ emitted'[r].error = 1
             /\ Posted # <<>>
             /\ Posted[1] = ErrorMsg(r,
                    IF w'[r].exc = "" THEN NoDataText
                    ELSE <<"Hesaplama hatasi: ", w'[r].exc>>)
             /\ (w[r].pc = "fetch_nat" => w'[r].exc \in {"", "FetchError"})
             /\ (w[r].pc = "predict" => w'[r].exc = "ScoringError")]_vars

\* The no-data error of one run is queued while another run has just failed
\* in its nationwide score.
C4_Witness ==
    /\ \E i \in DOMAIN mainQueue : mainQueue[i].kind = "error"
                                    /\ mainQueue[i].text = NoDataText
    /\ \E r \in Runs : w[r].pc = "finally" /\ w[r].exc = "ScoringError"
                         /\ w[r].provs = provinces

AllSet(col) == \A g \in Regions : col[g] # Unset

\* C5: the region frame of every delivered result has a risk value for every
\* region, the values the sweep computed in region order, and the value the
\* sweep appends for a region whose fetch returned no events is 0.
C5_ResultCoversAllRegions ==
    /\ \A i \in DOMAIN mainQueue :
          LET m == mainQueue[i] IN
          m.kind = "result" =>
              /\ heap[m.provs].alive
              /\ DOMAIN heap[m.provs].risk = Regions
              /\ AllSet(heap[m.provs].risk)
              /\ (w[m.run].pc = "finally" =>
                    /\ Len(w[m.run].risks) = NumRegions
                    /\ \A g \in Regions : heap[m.provs].risk[g] = w[m.run].risks[g])
    /\ \A r \in Runs :
          /\ Len(w[r].risks) <= NumRegions
          /\ (w[r].pc = "assign" => Len(w[r].risks) = NumRegions)
          /\ (w[r].pc \in {"sweep", "assign"} /\ w[r].risks # <<>>
                 /\ w[r].evs = <<>> => w[r].risks[Len(w[r].risks)] = 0)
    /\ (shown.run # 0 => AllSet(shown.risk))

\* A queued result with risk 0 for a region without events and a positive
\* risk for another region.
C5_Witness ==
    \E i \in DOMAIN mainQueue :
        /\ mainQueue[i].kind = "result"
        /\ \E g1, g2 \in Regions :
              /\ heap[mainQueue[i].provs].risk[g1] = 0
              /\ heap[mainQueue[i].provs].risk[g2] > 0

\* C6: once every started run has ended and its outcome handler has
\* returned, the progress dialogs are closed and the start button is enabled.
C6_ReturnsToIdle ==
    ( /\ AppRunning
      /\ msgBoxes = 0
      /\ \E r \in Runs : Started(r)
      /\ \A r \in Runs : Started(r) => w[r].pc = "done" /\ nHandled[r] = 1 )
    => analyze_btn /\ openProgress = {}

\* C7: no outcome handler runs once the main window has been closed.
C7_NoHandlerAfterClose ==
    [][\A r \in Runs : nHandled'[r] # nHandled[r] => ~closed]_vars

C8_QueuedAfterEmit ==
    \A i \in DOMAIN mainQueue :
        LET m == mainQueue[i] IN
        m.kind \in {"result", "error"} =>
            /\ w[m.run].pc \in {"finally", "done"}
            /\ emitted[m.run][m.kind] = 1
            /\ (m.kind = "result" =>
                  /\ heap[m.provs].alive
                  /\ \A r \in Runs : w[r].pc \in {"sweep", "assign"}
                                       => w[r].provs # m.provs
                  /\ (w[m.run].pc = "finally" =>
                        /\ m.proba = w[m.run].proba
                        /\ m.events = w[m.run].events
                        /\ m.provs = w[m.run].provs))

\* C8: a handler runs only as the main thread's handling of the queued signal
\* at the head of its event queue; a queued outcome belongs to a worker that
\* has emitted it and writes nothing any more; and handle_results displays
\* the values carried by the signal.
C8_NotifiedNotCalled ==
    /\ []C8_QueuedAfterEmit
    /\ [][\A r \in Runs : nHandled'[r] # nHandled[r] =>
             /\ mainQueue # <<>>
             /\ Head(mainQueue).run = r
             /\ Head(mainQueue).kind \in {"result", "error"}
             /\ mainQueue' = Tail(mainQueue)
             /\ nHandled'[r] <= Outcomes(r)
             /\ w' = w
             /\ (Head(mainQueue).kind = "result" =>
                   /\ shown'.run = r
                   /\ shown'.proba = Head(mainQueue).proba
                   /\ shown'.events = Head(mainQueue).events
                   /\ shown'.risk = heap[Head(mainQueue).provs].risk)]_vars

\* A result is displayed while another run is still sweeping its regions.
C8_Witness ==
    /\ shown.run # 0
    /\ nHandled[shown.run] = 1
    /\ \E r \in Runs : r # shown.run /\ w[r].pc = "sweep" /\ w[r].risks # <<>>

\* C9 as stated: a completed run has overwritten the risk of the shared
\* region set.
C9_SharedOverwritten ==
    \A r \in Runs : emitted[r].result = 1 => heap[provinces].risk # NoRisk

C9_NoPartial ==
    \A x \in 0..MaxRuns : heap[x].risk = NoRisk \/ AllSet(heap[x].risk)

\* C9, amended: the risk column is written once per completed run, into the
\* run's own copy of the region set and never into the shared one, as a whole
\* after all per-region scores of the run are computed, so no region frame
\* ever has some risks set and others not.
C9_CopyWrittenOnce ==
    /\ []C9_NoPartial
    /\ [](\A r \in Runs : emitted[r].result = 1 /\ w[r].pc = "finally" =>
             heap[provinces].risk = NoRisk /\ AllSet(heap[r].risk))
    /\ [][\A x \in 0..MaxRuns : heap'[x].risk # heap[x].risk =>
             /\ x \in Runs
             /\ \/ /\ heap[x].risk = NoRisk
                   /\ w[x].pc = "assign"
                   /\ w[x].provs = x
                   /\ Len(w[x].risks) = NumRegions
                   /\ heap'[x].risk = [g \in Regions |-> w[x].risks[g]]
                   /\ emitted'[x].result = 1
                \/ /\ ~heap'[x].alive
                   /\ heap'[x].risk = NoRisk]_vars

\* A run has just written its copy.
C9_Witness ==
    \E r \in Runs : /\ w[r].pc = "finally"
                     /\ emitted[r].result = 1
                     /\ heap[r].alive
                     /\ heap[r].risk # NoRisk

\* C10: Worker.run never changes the shared provinces frame, and the frame
\* a run writes its risks into is its own copy, different from the shared
\* frame and from every other run's.
C10_SharedProvincesReadOnly ==
    /\ heap[provinces] = [alive |-> TRUE, risk |-> NoRisk]
    /\ \A r \in Runs :
          w[r].pc \in {"sweep", "assign"} =>
              /\ w[r].provs # provinces
              /\ heap[w[r].provs].alive
              /\ \A r2 \in Runs \ {r} :
                    w[r2].pc \in {"sweep", "assign"} => w[r2].provs # w[r].provs

\* One run has succeeded and one has failed after making its copy.
C10_Witness ==
    \E r1, r2 \in Runs :
        /\ w[r1].pc = "done" /\ emitted[r1].result = 1
        /\ w[r2].pc = "finally" /\ emitted[r2].error = 1 /\ w[r2].provs # provinces

\* ------------------------------------------------ parser and aggregator
\* The features of the response, as a list.
RawList == IF raw.features = "missing" THEN <<>> ELSE raw.list

\* The record carries a magnitude and a depth that are numbers.
HasMagAndDepth(feature) ==
    /\ feature.properties = "obj"
    /\ feature.mag.tag = "num"
    /\ feature.geometry = "obj"
    /\ feature.coordinates.tag = "list"
    /\ feature.coordinates.len >= 3
    /\ feature.coordinates.depth.tag = "num"

\* C11: the parser emits an event only for a record that has both a
\* magnitude and a depth: every event of a returned list has a non-null
\* magnitude and a non-null depth, and the list has no more events than the
\* response has records with both.
C11_OnlyWithMagAndDepth ==
    (purePc \in {"score", "scored"}) =>
        /\ \A i \in 1..Len(parsed.events) :
              /\ parsed.events[i].mag.tag = "num"
              /\ parsed.events[i].depth.tag = "num"
        /\ Len(parsed.events)
              = Cardinality({ i \in 1..Len(RawList) : HasMagAndDepth(RawList[i]) })

\* C12: parse_earthquake_data never raises: whatever records the response
\* holds, the call returns a list.
C12_ParserNeverRaises ==
    purePc # "raised"

\* The list the classifier was last called for in run r: the nationwide
\* events before the copy of provinces exists, the region's events after.
LastScored(r) == IF w[r].provs = provinces THEN w[r].events ELSE w[r].evs

\* C13: nothing is scored from an empty event list.  Scoring an empty list
\* returns exactly 0 without error and builds no feature row; a run gets
\* past the nationwide fetch only with at least one event; a region without
\* events gets 0; and the classifier, which can only fail when it is called,
\* never fails for an empty list.
C13_NoScoringOfEmpty ==
    /\ \A clf \in ClassifierModes :
          /\ predict_risk(<<>>, clf) = [ok |-> TRUE, value |-> 0, exc |-> ""]
          /\ RegionRisk(<<>>, clf) = [ok |-> TRUE, value |-> 0, exc |-> ""]
    /\ FeatureRow(<<>>) = <<>>
    /\ \A r \in Runs :
          /\ w[r].pc \in {"predict", "sweep", "assign"} => w[r].events # <<>>
          /\ (w[r].pc \in {"sweep", "assign"} /\ w[r].risks # <<>>
                /\ w[r].evs = <<>>)
                => w[r].risks[Len(w[r].risks)] = 0
          /\ w[r].exc = "ScoringError" => LastScored(r) # <<>>

\* One run has reported the empty nationwide response (error and finished
\* are out, the finally block is still ahead) while another has given a
\* region without events the risk 0.
C13_Witness ==
    \E r1, r2 \in Runs :
        /\ w[r1].pc = "finally" /\ w[r1].exc = ""
        /\ emitted[r1].error = 1 /\ emitted[r1].finished = 1
        /\ w[r2].pc = "sweep" /\ w[r2].evs = <<>> /\ w[r2].risks = << 0 >>

\* The sum of field f over the first n events of a parsed list.
RECURSIVE C14_Total(_, _, _)
C14_Total(events, f, n) ==
    IF n = 0 THEN 0 ELSE events[n][f].v + C14_Total(events, f, n - 1)

\* Field k of the row is the arithmetic mean of f over the events.
C14_IsMean(row, k, events, f) ==
    /\ row[k].den > 0
    /\ row[k].num * Len(events) = row[k].den * C14_Total(events, f, Len(events))

\* C14: the row given to the classifier for a non-empty list of events has
\* six fields, in the order mag, depth, nst, gap, dmin, rms, each the
\* arithmetic mean of that field over the list, and every permutation of the
\* list gives the same row.
C14_RowIsMeansInOrder ==
    (purePc = "scored" /\ fv # <<>>) =>
        /\ parsed.events # <<>>
        /\ Len(fv) = 6
        /\ C14_IsMean(fv, 1, parsed.events, "mag")
        /\ C14_IsMean(fv, 2, parsed.events, "depth")
        /\ C14_IsMean(fv, 3, parsed.events, "nst")
        /\ C14_IsMean(fv, 4, parsed.events, "gap")
        /\ C14_IsMean(fv, 5, parsed.events, "dmin")
        /\ C14_IsMean(fv, 6, parsed.events, "rms")
        /\ \A q \in Permutations(1..Len(parsed.events)) :
              FeatureRow([i \in 1..Len(parsed.events) |-> parsed.events[q[i]]]) = fv

\* A row was built from two different events whose mean magnitude is not a
\* whole number.
C14_Witness ==
    /\ purePc = "scored"
    /\ Len(parsed.events) = 2
    /\ parsed.events[1] # parsed.events[2]
    /\ fv # <<>>
    /\ fv[1].den = 2
    /\ fv[2] # fv[1]

\* A percentage.
Percent == 0..100

\* v is the classifier's probability for the events, times 100.
C15_Scaled(v, events) ==
    /\ PredictProba(FeatureVector(events)) \in 0..ProbaDen
    /\ v * ProbaDen = PredictProba(FeatureVector(events)) * 100

\* C15: with a classifier whose probability lies in [0,1], the overall risk
\* of a run is that probability times 100, a region's risk is 0 for no events
\* and that probability times 100 otherwise, and every risk held anywhere (a
\* run's locals, a frame's risk column, a queued result, the display) is unset
\* or in [0,100].
C15_RisksArePercentages ==
    /\ \A r \in Runs :
          /\ w[r].proba \in Percent \cup {Unset}
          /\ w[r].proba # Unset => C15_Scaled(w[r].proba, w[r].events)
          /\ \A g \in 1..Len(w[r].risks) : w[r].risks[g] \in Percent
          /\ (w[r].pc \in {"sweep", "assign"} /\ w[r].risks # <<>>) =>
                IF w[r].evs = <<>> THEN w[r].risks[Len(w[r].risks)] = 0
                ELSE C15_Scaled(w[r].risks[Len(w[r].risks)], w[r].evs)
    /\ \A x \in DOMAIN heap : \A g \in Regions :
          heap[x].risk[g] \in Percent \cup {Unset}
    /\ \A i \in DOMAIN mainQueue :
          mainQueue[i].kind = "result" =>
              /\ C15_Scaled(mainQueue[i].proba, mainQueue[i].events)
              /\ mainQueue[i].proba \in Percent
    /\ shown.proba \in Percent \cup {Unset}
    /\ \A g \in Regions : shown.risk[g] \in Percent \cup {Unset}

\* A result is displayed whose overall risk and whose regions' risks are
\* not zero, one region having none.
C15_Witness ==
    /\ shown.run # 0
    /\ shown.proba > 0
    /\ \E g \in Regions : shown.risk[g] > 0
    /\ \E g \in Regions : shown.risk[g] = 0

\* The requests of a complete run, in order: the country, then every region.
C16_Plan == << TURKEY_BBOX >> \o [g \in Regions |-> RegionBBox(g)]

C16_IsPrefix(s, t) == Len(s) <= Len(t) /\ \A i \in 1..Len(s) : s[i] = t[i]

\* The regions are told apart by their boxes, and from the country.
C16_BoxesDistinct ==
    \A i, j \in 1..Len(C16_Plan) : C16_Plan[i] = C16_Plan[j] => i = j

\* A step of run r that issues one more request from position pc.
C16_OneMore(r) ==
    /\ w[r].pc \in {"fetch_nat", "sweep"}
    /\ Len(w'[r].requests) = Len(w[r].requests) + 1
    /\ C16_IsPrefix(w[r].requests, w'[r].requests)

\* C16: the requests a run has issued are always an initial part of: the
\* country, then region 1, region 2, ... (so: fixed order, no request twice,
\* at most 1 + |regions|); a region is requested only after the nationwide
\* response had an event and its score succeeded; and a run whose request or
\* score has failed, or that has sent its outcome, issues no further request.
C16_RequestsInOrderNoRetry ==
    /\ [](C16_BoxesDistinct
          /\ \A r \in Runs :
                /\ C16_IsPrefix(w[r].requests, C16_Plan)
                /\ w[r].pc = "fetch_nat" => w[r].requests = <<>>
                /\ w[r].pc = "predict" => Len(w[r].requests) = 1
                /\ w[r].pc \in {"sweep", "assign"} =>
                      Len(w[r].requests) = 1 + Len(w[r].risks)
                /\ Len(w[r].requests) > 1 =>
                      w[r].events # <<>> /\ w[r].proba # Unset)
    /\ [][\A r \in Runs :
            w'[r].requests # w[r].requests =>
                \/ C16_OneMore(r)
                \/ w[r].pc = "finally" /\ w'[r].pc = "done"]_vars

\* A run has issued all its requests; another has stopped after a failing
\* regional request.
C16_Witness ==
    \E r1, r2 \in Runs :
        /\ w[r1].pc = "assign" /\ w[r1].requests = C16_Plan
        /\ w[r2].pc = "finally" /\ w[r2].exc = "FetchError"
        /\ Len(w[r2].requests) = 2

\* C17: when loading the model or the boundary file fails in the
\* constructor, the application has exited with status 1, no timer is
\* running, and no run has been or is ever started; when both load, the
\* application is up with its timer running.
C17_StartupFailureIsFatal ==
    /\ ~loaded =>
          /\ exited
          /\ exitStatus = 1
          /\ ~timer
          /\ nextRun = 1
          /\ worker = 0
          /\ \A r \in Runs : w[r].pc = "unborn" /\ thread[r] = "none"
    /\ loaded => ~exited /\ timer

\* The load has failed and the process has exited.
C17_Witness ==
    /\ ~loaded
    /\ exited
    /\ ~ENABLED Next

\* C18: a run emits finished exactly once, after its result or error: never
\* more than once, not before the outcome, and once when run() has returned.
C18_FinishedExactlyOnce ==
    \A r \in Runs :
        /\ emitted[r].finished <= 1
        /\ emitted[r].finished > 0 => emitted[r].result + emitted[r].error = 1
        /\ w[r].pc = "done" => emitted[r].finished = 1

\* C19: cleanup schedules for deletion only the worker and thread of a run
\* whose thread has finished, never those of a run still in flight.
C19_DeletesOnlyFinished ==
    \A r \in deleted : thread[r] = "finished"

\* C20: every event the parser emits has numbers in the optional fields nst,
\* gap, dmin and rms, and scoring a non-empty parsed list whose events have a
\* magnitude and a depth does not fail for lack of a number.
C20_ParsedEventsAggregate ==
    /\ (purePc \in {"score", "scored"}) =>
          \A i \in 1..Len(parsed.events) :
              /\ parsed.events[i].nst.tag = "num"
              /\ parsed.events[i].gap.tag = "num"
              /\ parsed.events[i].dmin.tag = "num"
              /\ parsed.events[i].rms.tag = "num"
    /\ (/\ purePc = "scored"
        /\ \A i \in 1..Len(parsed.events) :
              /\ parsed.events[i].mag.tag = "num"
              /\ parsed.events[i].depth.tag = "num")
          => scored.exc # "TypeError"

====
